---- MODULE Spec2Model ----
(***************************************************************************)
(* Campaign dispatch engine of backend/server.py.                          *)
(*                                                                         *)
(* The store is two collections: db.campaigns (one document per campaign   *)
(* id) and db.recipients (documents in insertion order; a recipient's id   *)
(* is its position).  Every awaited store call is one atomic step; the     *)
(* code between two awaits belongs to the step of the call before it.      *)
(* Background runs (process_bulk_email_campaign) and enrollment handlers   *)
(* (add_recipient, upload_recipients_csv) are coroutines on one event      *)
(* loop, so their steps interleave at the awaits.  send_single_email has   *)
(* no await inside and the delivery client's call is synchronous: from the *)
(* moment a send task calls the provider (Send) to the moment the call     *)
(* returns or raises (Settle) the event loop is held and no other          *)
(* coroutine takes a step, so the sends of a gathered batch run one after  *)
(* the other, in task order.                                               *)
(*                                                                         *)
(* A store call may raise instead of taking effect (StoreFault and the     *)
(* other *Fault actions); MaxFaults bounds the faults that start an error  *)
(* path, and the handler's own write may fail after any of them.           *)
(* PUT /campaigns/{id} (update_campaign), which lets a client overwrite    *)
(* any campaign field, is not among the modelled operations.               *)
(***************************************************************************)
EXTENDS Integers, Sequences, FiniteSets, TLC

VARIABLES
    campaigns,   \* db.campaigns : campaign id -> document (or NoCampaign)
    recipients,  \* db.recipients: sequence of documents, store order
    tasks,       \* background tasks: one record per scheduled run
    requests,    \* enrollment handlers between their insert and their $inc
    provider,    \* delivery provider: recipient id -> number of send calls
    faults,      \* store faults injected so far
    rejections,  \* requests refused: <<endpoint, campaign id, code>> -> count
    render       \* one personalization: its inputs and, once made, its output

vars == <<campaigns, recipients, tasks, requests, provider, faults,
          rejections, render>>

----------------------------------------------------------------------------
(* Bounds of the model *)

MaxCampaigns == 2
MaxRecipients == 2
MaxRuns == 2
MaxRequests == 1
MaxCsvRows == 2
MaxFaults == 1
MaxPending == 21
MaxSendFailures == 1
MaxRejections == 2
MaxTemplateLen == 2
MaxMetadata == 2
MaxOverlap == 6
MaxFrame == 6

(* Program constants *)

batch_size == 10

TestModeLimit == 5

----------------------------------------------------------------------------
(* Data model *)

CampaignIds == 1..MaxCampaigns

NoCampaign == [status |-> "absent", total_recipients |-> 0,
               sent_count |-> 0, failed_count |-> 0]

Campaign == [status |-> "draft", total_recipients |-> 0,
             sent_count |-> 0, failed_count |-> 0]

Recipient(c) == [campaign_id |-> c, status |-> "pending"]

Exists(c) == campaigns[c].status # "absent"

Min(a, b) == IF a < b THEN a ELSE b

\* Python s[a:b] for 0 <= a <= b
Slice(s, a, b) == SubSeq(s, a + 1, Min(b, Len(s)))

RecipientIds == 1..Len(recipients)

\* FindPending with the status filter forgotten
FindAll(c) ==
    SelectSeq([r \in RecipientIds |-> r],
              LAMBDA r : recipients[r].campaign_id = c)

\* db.recipients.find({"campaign_id": c, "status": "pending"}), store order
FindPending(c) ==
    SelectSeq([r \in RecipientIds |-> r],
              LAMBDA r : recipients[r].campaign_id = c
                         /\ recipients[r].status = "pending")

\* db.recipients.count_documents({"campaign_id": c})
CountDocuments(c) ==
    Cardinality({r \in RecipientIds : recipients[r].campaign_id = c})

\* the endpoints whose refusals are recorded, and the codes they refuse with
Endpoints == {"send", "add"}

Codes == {400, 404}

NoRejections == [key \in Endpoints \X CampaignIds \X Codes |-> 0]

\* raise HTTPException(status_code=code)
Reject(endpoint, c, code) ==
    rejections' = [rejections EXCEPT ![<<endpoint, c, code>>] = @ + 1]

RECURSIVE SumOver(_, _)
SumOver(f, keys) ==
    IF keys = {} THEN 0
    ELSE LET key == CHOOSE key \in keys : TRUE
         IN f[key] + SumOver(f, keys \ {key})

\* requests refused so far
Rejected == SumOver(rejections, DOMAIN rejections)

----------------------------------------------------------------------------
(* Pure pieces of the run *)

\* send_single_email's return value for what the delivery provider did:
\* 202 accepted, another status code, or a raised fault (caught, logged)
SendSingleEmail(outcome) ==
    CASE outcome = "accepted" -> "True"
      [] outcome = "rejected" -> "False"
      [] outcome = "fault"    -> "False"

SendOutcomes == {"accepted", "rejected", "fault"}

\* SelectRecipients with the test-mode cut forgotten
SelectRecipientsUncut(c, test_mode) == FindPending(c)

\* the recipients a run works on: the pending ones, the first 5 in test mode
\* SelectRecipients with a full run taking every recipient of the campaign
SelectRecipientsAgain(c, test_mode) ==
    IF test_mode THEN Slice(FindPending(c), 0, TestModeLimit)
                 ELSE FindAll(c)

SelectRecipients(c, test_mode) ==
    IF test_mode THEN Slice(FindPending(c), 0, TestModeLimit)
                 ELSE FindPending(c)

\* Batch with a slice one short
BatchShort(selected, i) == Slice(selected, i, i + batch_size - 1)

\* batch = recipients[i:i + batch_size]
Batch(selected, i) == Slice(selected, i, i + batch_size)

\* the status the zip loop stores for one gathered result
StatusFor(result) ==
    CASE result = "Exception" -> "failed"
      [] result = "True"      -> "sent"
      [] OTHER                -> "failed"

\* FinalStatus that ignores the failed sends
FinalStatusCompleted(failed_count) == "completed"

FinalStatus(failed_count) ==
    IF failed_count = 0 THEN "completed" ELSE "completed_with_errors"

\* PauseNeeded without the test: a pause after every batch
PauseAlways(i, n) == TRUE

\* the pause between batches is taken only when another batch follows
PauseNeeded(i, n) == i + batch_size < n

----------------------------------------------------------------------------
(* Personalization in send_single_email.  A text is a sequence of tokens:  *)
(* a word, or a placeholder {{key}}.  recipient.name is a text, empty when *)
(* the recipient has no name; recipient.metadata is the sequence of its    *)
(* <<key, value>> items in the dict's order, the keys distinct.            *)

Word(w) == <<"word", w>>

\* f"{{{{{key}}}}}"
Placeholder(key) == <<"{{}}", key>>

\* str.replace(old, new) with old a single token
RECURSIVE Replace(_, _, _)
Replace(text, old, new) ==
    IF text = <<>> THEN <<>>
    ELSE (IF Head(text) = old THEN new ELSE <<Head(text)>>)
         \o Replace(Tail(text), old, new)

\* for key, value in metadata.items(): text = text.replace(...)
RECURSIVE ReplaceItems(_, _)
ReplaceItems(text, items) ==
    IF items = <<>> THEN text
    ELSE ReplaceItems(Replace(text, Placeholder(Head(items)[1]), Head(items)[2]),
                      Tail(items))

\* the subject, or the content, that send_single_email hands to Mail
Personalize(template, name, metadata) ==
    ReplaceItems(IF name # <<>>
                 THEN Replace(template, Placeholder("name"), name)
                 ELSE template,
                 metadata)

NoRender == [pc |-> "idle", template |-> <<>>, name |-> <<>>,
             metadata |-> <<>>, out |-> <<>>]

\* one template of the campaign is personalized for one recipient
Personalization ==
    /\ render.pc = "ready"
    /\ render' = [render EXCEPT
          !.out = Personalize(render.template, render.name, render.metadata),
          !.pc = "done"]
    /\ UNCHANGED <<campaigns, recipients, tasks, requests, provider, faults,
                   rejections>>

----------------------------------------------------------------------------
(* Background task: process_bulk_email_campaign *)

NewTask(c, test_mode) ==
    [campaign_id |-> c, test_mode |-> test_mode, pc |-> "load",
     recipients |-> <<>>, i |-> 0, batch |-> <<>>, results |-> <<>>, k |-> 0,
     sent_count |-> 0, failed_count |-> 0,
     issued |-> 0,        \* sends of the batch whose provider call has begun
     pauses |-> 0,        \* asyncio.sleep calls this run has made
     raised_at |-> "",    \* where the try block raised, if it did
     writes |-> <<>>,     \* campaign status values this run has written
     gathered |-> <<>>]   \* the batches this run has handed to gather

Tasks == 1..Len(tasks)

TaskIds == 1..MaxRuns

RequestIds == 1..MaxRequests

Terminal == {"done", "absent", "handled", "raised"}

Active(t) == tasks[t].pc \notin Terminal

\* sends of the task's batch that are issued and have not settled
InFlight(task) == task.issued - Len(task.results)

\* the provider call yields to the event loop while it is in progress
SendAwaitsYes == TRUE

\* sg.send(message) is a synchronous call in a coroutine without an await:
\* it does not yield
SendAwaits == FALSE

\* no coroutine is inside a call that holds the event loop
Idle == SendAwaits \/ \A t \in Tasks : InFlight(tasks[t]) = 0

\* the head of `for i in range(0, len(recipients), batch_size)` at value i:
\* build the batch and its send tasks and await gather, or leave the loop
EnterBatch(task, i) ==
    IF i < Len(task.recipients)
    THEN [task EXCEPT !.i = i,
                      !.batch = Batch(task.recipients, i),
                      !.results = <<>>,
                      !.issued = 0,
                      !.k = 0,
                      !.gathered = Append(@, Batch(task.recipients, i)),
                      !.pc = "send"]
    ELSE [task EXCEPT !.pc = "final"]

\* after the zip loop of a batch: pause, or go on with the range
AfterBatch(task) ==
    IF PauseNeeded(task.i, Len(task.recipients))
    THEN [task EXCEPT !.pc = "sleep"]
    ELSE EnterBatch(task, task.i + batch_size)

\* SetStatus as an upsert: the document is written whether it is there or not
SetStatusUpsert(c, s) == [campaigns EXCEPT ![c].status = s]

\* update_one({"id": c}, {"$set": {"status": s}}): no document, no effect
SetStatus(c, s) ==
    IF Exists(c) THEN [campaigns EXCEPT ![c].status = s] ELSE campaigns

\* find_one; an absent campaign is logged and the run returns
Load(t) ==
    /\ t \in Tasks
    /\ Idle
    /\ tasks[t].pc = "load"
    /\ tasks' = [tasks EXCEPT ![t].pc =
                    IF Exists(tasks[t].campaign_id) THEN "mark" ELSE "absent"]
    /\ UNCHANGED <<campaigns, recipients, requests, provider, faults, rejections, render>>

\* update_one: status "sending"
Mark(t) ==
    /\ t \in Tasks
    /\ Idle
    /\ tasks[t].pc = "mark"
    /\ campaigns' = SetStatus(tasks[t].campaign_id, "sending")
    /\ tasks' = [tasks EXCEPT ![t].pc = "select",
                              ![t].writes = Append(@, "sending")]
    /\ UNCHANGED <<recipients, requests, provider, faults, rejections, render>>

\* the pending recipients, the test-mode cut, the counters, the first batch
Select(t) ==
    /\ t \in Tasks
    /\ Idle
    /\ tasks[t].pc = "select"
    /\ LET task == tasks[t]
           selected == SelectRecipients(task.campaign_id, task.test_mode)
       IN tasks' = [tasks EXCEPT ![t] =
             EnterBatch([task EXCEPT !.recipients = selected,
                                     !.sent_count = 0,
                                     !.failed_count = 0], 0)]
    /\ UNCHANGED <<campaigns, recipients, requests, provider, faults, rejections, render>>

\* AfterSend with a failed send raising out of gather into the run's handler
AfterSendUncaught(task, outcome) ==
    LET results == Append(task.results, SendSingleEmail(outcome))
    IN IF outcome # "accepted"
       THEN [task EXCEPT !.pc = "except", !.raised_at = "send"]
       ELSE [task EXCEPT !.results = results,
                         !.pc = IF Len(results) = Len(task.batch)
                                THEN "write" ELSE "send"]

\* AfterSend with the run going on to the next batch as soon as the sends
\* have settled, the status writes of the batch not awaited
AfterSendUnwritten(task, outcome) ==
    LET results == Append(task.results, SendSingleEmail(outcome))
    IN IF Len(results) = Len(task.batch)
       THEN AfterBatch([task EXCEPT !.results = results])
       ELSE [task EXCEPT !.results = results]

\* gather(*tasks, return_exceptions=True): a send that settles, however it
\* settles, adds its result; the run goes on when the whole batch has settled
AfterSend(task, outcome) ==
    LET results == Append(task.results, SendSingleEmail(outcome))
    IN [task EXCEPT !.results = results,
                    !.pc = IF Len(results) = Len(task.batch)
                           THEN "write" ELSE "send"]

\* the next send task of the gathered batch starts: it runs without a
\* pause up to its call of the delivery provider
Send(t) ==
    /\ t \in Tasks
    /\ tasks[t].pc = "send"
    /\ tasks[t].issued < Len(tasks[t].batch)
    /\ SendAwaits \/ InFlight(tasks[t]) = 0
    /\ Idle
    /\ LET r == tasks[t].batch[tasks[t].issued + 1]
       IN provider' = [provider EXCEPT ![r] = @ + 1]
    /\ tasks' = [tasks EXCEPT ![t].issued = @ + 1]
    /\ UNCHANGED <<campaigns, recipients, requests, faults, rejections, render>>

\* Settle with a send that did not succeed started again
SettleRetry(t, outcome) ==
    /\ t \in Tasks
    /\ tasks[t].pc = "send"
    /\ InFlight(tasks[t]) > 0
    /\ tasks' = [tasks EXCEPT ![t] =
          IF outcome = "accepted" THEN AfterSend(tasks[t], outcome)
          ELSE [tasks[t] EXCEPT !.issued = @ - 1]]
    /\ UNCHANGED <<campaigns, recipients, requests, provider, faults,
                   rejections, render>>

\* the provider call of the oldest send in flight returns or raises, and
\* send_single_email returns
Settle(t, outcome) ==
    /\ t \in Tasks
    /\ tasks[t].pc = "send"
    /\ InFlight(tasks[t]) > 0
    /\ tasks' = [tasks EXCEPT ![t] = AfterSend(tasks[t], outcome)]
    /\ UNCHANGED <<campaigns, recipients, requests, provider, faults,
                   rejections, render>>

\* Counted with the increment of failed_count forgotten
CountedSentOnly(task, status) ==
    [task EXCEPT !.k = @ + 1,
                 !.sent_count = IF status = "sent" THEN @ + 1 ELSE @]

\* sent_count += 1 or failed_count += 1, and the zip loop moves on
Counted(task, status) ==
    [task EXCEPT !.k = @ + 1,
                 !.sent_count = IF status = "sent" THEN @ + 1 ELSE @,
                 !.failed_count = IF status = "sent" THEN @ ELSE @ + 1]

\* one turn of `for recipient, result in zip(batch, results)`
WriteStatus(t) ==
    /\ t \in Tasks
    /\ Idle
    /\ tasks[t].pc = "write"
    /\ LET task == tasks[t]
           r == task.batch[task.k + 1]
           status == StatusFor(task.results[task.k + 1])
           counted == Counted(task, status)
       IN /\ recipients' = [recipients EXCEPT ![r].status = status]
          /\ tasks' = [tasks EXCEPT ![t] =
                          IF counted.k = Len(task.batch)
                          THEN AfterBatch(counted) ELSE counted]
    /\ UNCHANGED <<campaigns, requests, provider, faults, rejections, render>>

\* asyncio.sleep(1), then the next batch
Sleep(t) ==
    /\ t \in Tasks
    /\ Idle
    /\ tasks[t].pc = "sleep"
    /\ tasks' = [tasks EXCEPT ![t] =
          EnterBatch([@ EXCEPT !.pauses = @ + 1], tasks[t].i + batch_size)]
    /\ UNCHANGED <<campaigns, recipients, requests, provider, faults, rejections, render>>

\* Final with the run's counts added to the stored ones ($inc for $set)
FinalInc(t) ==
    /\ t \in Tasks
    /\ Idle
    /\ tasks[t].pc = "final"
    /\ LET task == tasks[t]
           c == task.campaign_id
           final_status == FinalStatus(task.failed_count)
       IN /\ campaigns' =
                IF Exists(c)
                THEN [campaigns EXCEPT ![c].status = final_status,
                                       ![c].sent_count = @ + task.sent_count,
                                       ![c].failed_count = @ + task.failed_count]
                ELSE campaigns
          /\ tasks' = [tasks EXCEPT ![t].pc = "done",
                                    ![t].writes = Append(@, final_status)]
    /\ UNCHANGED <<recipients, requests, provider, faults, rejections, render>>

\* the terminal write: status and both counters
Final(t) ==
    /\ t \in Tasks
    /\ Idle
    /\ tasks[t].pc = "final"
    /\ LET task == tasks[t]
           c == task.campaign_id
           final_status == FinalStatus(task.failed_count)
       IN /\ campaigns' =
                IF Exists(c)
                THEN [campaigns EXCEPT ![c].status = final_status,
                                       ![c].sent_count = task.sent_count,
                                       ![c].failed_count = task.failed_count]
                ELSE campaigns
          /\ tasks' = [tasks EXCEPT ![t].pc = "done",
                                    ![t].writes = Append(@, final_status)]
    /\ UNCHANGED <<recipients, requests, provider, faults, rejections, render>>

\* an awaited store call of the try block raises
StoreFault(t) ==
    /\ t \in Tasks
    /\ Idle
    /\ tasks[t].pc \in {"load", "mark", "select", "write", "final"}
    /\ faults < MaxFaults
    /\ faults' = faults + 1
    /\ tasks' = [tasks EXCEPT ![t].pc = "except",
                              ![t].raised_at = tasks[t].pc]
    /\ UNCHANGED <<campaigns, recipients, requests, provider, rejections, render>>

\* Except with the counts the run had reached written along with "failed"
ExceptCounts(t) ==
    /\ t \in Tasks
    /\ Idle
    /\ tasks[t].pc = "except"
    /\ campaigns' =
          IF Exists(tasks[t].campaign_id)
          THEN [campaigns EXCEPT
                  ![tasks[t].campaign_id].status = "failed",
                  ![tasks[t].campaign_id].sent_count = tasks[t].sent_count,
                  ![tasks[t].campaign_id].failed_count = tasks[t].failed_count]
          ELSE campaigns
    /\ tasks' = [tasks EXCEPT ![t].pc = "handled",
                              ![t].writes = Append(@, "failed")]
    /\ UNCHANGED <<recipients, requests, provider, faults, rejections, render>>

\* except Exception: log, update_one status "failed"
Except(t) ==
    /\ t \in Tasks
    /\ Idle
    /\ tasks[t].pc = "except"
    /\ campaigns' = SetStatus(tasks[t].campaign_id, "failed")
    /\ tasks' = [tasks EXCEPT ![t].pc = "handled",
                              ![t].writes = Append(@, "failed")]
    /\ UNCHANGED <<recipients, requests, provider, faults, rejections, render>>

\* the handler's own update_one raises too (the store that failed the try
\* block is still failing): the exception leaves the task
ExceptFault(t) ==
    /\ t \in Tasks
    /\ Idle
    /\ tasks[t].pc = "except"
    /\ tasks' = [tasks EXCEPT ![t].pc = "raised"]
    /\ UNCHANGED <<campaigns, recipients, requests, provider, faults, rejections, render>>

----------------------------------------------------------------------------
(* HTTP handlers *)

\* POST /campaigns: a fresh id, status "draft", all counters 0
CreateCampaign ==
    /\ Idle
    /\ \E c \in CampaignIds :
          /\ ~Exists(c)
          /\ \A d \in CampaignIds : d < c => Exists(d)
          /\ campaigns' = [campaigns EXCEPT ![c] = Campaign]
    /\ UNCHANGED <<recipients, tasks, requests, provider, faults, rejections, render>>

InsertOne(c) ==
    /\ recipients' = Append(recipients, Recipient(c))
    /\ provider' = Append(provider, 0)

\* add_recipient up to its insert_one; the $inc is still to come
AddRecipient(c) ==
    /\ Idle
    /\ Exists(c)
    /\ Len(recipients) < MaxRecipients
    /\ Len(requests) < MaxRequests
    /\ InsertOne(c)
    /\ requests' = Append(requests,
          [op |-> "add", campaign_id |-> c, rows |-> 0, recipients_added |-> 1])
    /\ UNCHANGED <<campaigns, tasks, faults, rejections, render>>

\* add_recipient without the campaign: 404, nothing is stored
AddRecipientRejected(c) ==
    /\ Idle
    /\ ~Exists(c)
    /\ Rejected < MaxRejections
    /\ Reject("add", c, 404)
    /\ UNCHANGED <<campaigns, recipients, tasks, requests, provider, faults,
                   render>>

\* upload_recipients_csv: the file is read, no row handled yet
UploadRecipientsCsv(c, rows) ==
    /\ Idle
    /\ Exists(c)
    /\ Len(requests) < MaxRequests
    /\ requests' = Append(requests,
          [op |-> "csv", campaign_id |-> c, rows |-> rows, recipients_added |-> 0])
    /\ UNCHANGED <<campaigns, recipients, tasks, provider, faults, rejections, render>>

Remove(s, q) == [j \in 1..(Len(s) - 1) |-> IF j < q THEN s[j] ELSE s[j + 1]]

\* one row with an email: insert_one, recipients_added += 1
CsvRow(q) ==
    /\ Idle
    /\ q \in 1..Len(requests)
    /\ requests[q].op = "csv"
    /\ requests[q].rows > 0
    /\ Len(recipients) < MaxRecipients
    /\ InsertOne(requests[q].campaign_id)
    /\ requests' = [requests EXCEPT ![q].rows = @ - 1,
                                    ![q].recipients_added = @ + 1]
    /\ UNCHANGED <<campaigns, tasks, faults, rejections, render>>

\* one row without an email: an error is noted, nothing is stored
CsvRowSkipped(q) ==
    /\ Idle
    /\ q \in 1..Len(requests)
    /\ requests[q].op = "csv"
    /\ requests[q].rows > 0
    /\ requests' = [requests EXCEPT ![q].rows = @ - 1]
    /\ UNCHANGED <<campaigns, recipients, tasks, provider, faults, rejections, render>>

\* IncTotal with $set in the place of $inc
IncTotalSet(q) ==
    /\ Idle
    /\ q \in 1..Len(requests)
    /\ requests[q].rows = 0
    /\ campaigns' = [campaigns EXCEPT
          ![requests[q].campaign_id].total_recipients =
              requests[q].recipients_added]
    /\ requests' = Remove(requests, q)
    /\ UNCHANGED <<recipients, tasks, provider, faults, rejections, render>>

\* {"$inc": {"total_recipients": n}}, the last store call of both handlers
IncTotal(q) ==
    /\ Idle
    /\ q \in 1..Len(requests)
    /\ requests[q].rows = 0
    /\ campaigns' = [campaigns EXCEPT
          ![requests[q].campaign_id].total_recipients =
              @ + requests[q].recipients_added]
    /\ requests' = Remove(requests, q)
    /\ UNCHANGED <<recipients, tasks, provider, faults, rejections, render>>

\* the $inc raises: the handler answers 500, the documents stay
IncTotalFault(q) ==
    /\ Idle
    /\ q \in 1..Len(requests)
    /\ requests[q].rows = 0
    /\ faults < MaxFaults
    /\ faults' = faults + 1
    /\ requests' = Remove(requests, q)
    /\ UNCHANGED <<campaigns, recipients, tasks, provider, rejections, render>>

\* SendBulkEmailAnswer that counts the pending recipients only
SendBulkEmailAnswerPending(c) ==
    IF ~Exists(c) THEN 404
    ELSE IF Len(FindPending(c)) = 0 THEN 400
    ELSE 200

\* send_bulk_email's checks: 404 without the campaign, 400 without
\* recipient documents; nothing else is looked at
SendBulkEmailAnswer(c) ==
    IF ~Exists(c) THEN 404
    ELSE IF CountDocuments(c) = 0 THEN 400
    ELSE 200

\* send_bulk_email raises its HTTPException
SendBulkEmailRejected(c) ==
    /\ Idle
    /\ SendBulkEmailAnswer(c) # 200
    /\ Rejected < MaxRejections
    /\ Reject("send", c, SendBulkEmailAnswer(c))
    /\ UNCHANGED <<campaigns, recipients, tasks, requests, provider, faults,
                   render>>

\* send_bulk_email passes its checks: one background task is added and the
\* handler returns
SendBulkEmail(c, test_mode) ==
    /\ Idle
    /\ SendBulkEmailAnswer(c) = 200
    /\ Len(tasks) < MaxRuns
    /\ tasks' = Append(tasks, NewTask(c, test_mode))
    /\ UNCHANGED <<campaigns, recipients, requests, provider, faults, rejections, render>>

----------------------------------------------------------------------------
(* The service: empty store, no task *)

Init ==
    /\ campaigns = [c \in CampaignIds |-> NoCampaign]
    /\ recipients = <<>>
    /\ tasks = <<>>
    /\ requests = <<>>
    /\ provider = <<>>
    /\ faults = 0
    /\ rejections = NoRejections
    /\ render = NoRender

\* Sleep is left out: a run pauses only when it selected more than
\* batch_size recipients, and here the store holds at most MaxRecipients
\* (NoPause states it)
Run(t) ==
    \/ Load(t)
    \/ Mark(t)
    \/ Select(t)
    \/ Send(t)
    \/ \E outcome \in SendOutcomes : Settle(t, outcome)
    \/ WriteStatus(t)
    \/ Final(t)
    \/ Except(t)

RunFault(t) ==
    \/ StoreFault(t)
    \/ ExceptFault(t)

Enroll ==
    \/ \E c \in CampaignIds : AddRecipient(c)
    \/ \E c \in CampaignIds, rows \in 1..MaxCsvRows : UploadRecipientsCsv(c, rows)
    \/ \E q \in RequestIds : CsvRow(q)
    \/ \E q \in RequestIds : CsvRowSkipped(q)
    \/ \E q \in RequestIds : IncTotal(q)
    \/ \E q \in RequestIds : IncTotalFault(q)

Trigger == \E c \in CampaignIds, test_mode \in BOOLEAN : SendBulkEmail(c, test_mode)

Next ==
    \/ CreateCampaign
    \/ Enroll
    \/ Trigger
    \/ \E t \in TaskIds : Run(t)
    \/ \E t \in TaskIds : RunFault(t)

Spec == Init /\ [][Next]_vars

NoPause == \A t \in Tasks : tasks[t].pc # "sleep"

----------------------------------------------------------------------------
(* One campaign with n enrolled recipients, all pending, and triggers that  *)
(* arrive one after the other: each run ends before the next is scheduled.  *)
(* No store call raises, and at most MaxSendFailures sends fail in all.     *)

InitRun ==
    \E n \in 1..MaxPending :
        /\ campaigns = [c \in CampaignIds |->
                          IF c = 1 THEN [Campaign EXCEPT !.total_recipients = n]
                                   ELSE NoCampaign]
        /\ recipients = [r \in 1..n |-> Recipient(1)]
        /\ tasks = <<>>
        /\ requests = <<>>
        /\ provider = [r \in 1..n |-> 0]
        /\ faults = 0
        /\ rejections = NoRejections
        /\ render = NoRender

\* sends of run t that have failed so far
Failures(t) ==
    tasks[t].failed_count
    + Cardinality({j \in (tasks[t].k + 1)..Len(tasks[t].results) :
                      tasks[t].results[j] # "True"})

SequentialTrigger ==
    /\ \A t \in Tasks : ~Active(t)
    /\ Trigger

BoundedSettle(t) ==
    \E outcome \in SendOutcomes :
        /\ t \in Tasks
        /\ outcome = "accepted"
           \/ SumOver([u \in Tasks |-> Failures(u)], Tasks) < MaxSendFailures
        /\ Settle(t, outcome)

NextRun ==
    \/ SequentialTrigger
    \/ \E t \in TaskIds : Load(t)
    \/ \E t \in TaskIds : Mark(t)
    \/ \E t \in TaskIds : Select(t)
    \/ \E t \in TaskIds : Send(t)
    \/ \E t \in TaskIds : BoundedSettle(t)
    \/ \E t \in TaskIds : WriteStatus(t)
    \/ \E t \in TaskIds : Sleep(t)
    \/ \E t \in TaskIds : Final(t)

SpecRun == InitRun /\ [][NextRun]_vars

----------------------------------------------------------------------------
(* One campaign with up to MaxRecipients enrolled recipients, all pending,  *)
(* triggers that arrive one after the other, and store calls that may       *)
(* raise at any await of a run.                                             *)

InitFault ==
    \E n \in 1..MaxRecipients :
        /\ campaigns = [c \in CampaignIds |->
                          IF c = 1 THEN [Campaign EXCEPT !.total_recipients = n]
                                   ELSE NoCampaign]
        /\ recipients = [r \in 1..n |-> Recipient(1)]
        /\ tasks = <<>>
        /\ requests = <<>>
        /\ provider = [r \in 1..n |-> 0]
        /\ faults = 0
        /\ rejections = NoRejections
        /\ render = NoRender

NextFault ==
    \/ SequentialTrigger
    \/ \E t \in TaskIds : Run(t)
    \/ \E t \in TaskIds : RunFault(t)

SpecFault == InitFault /\ [][NextFault]_vars

----------------------------------------------------------------------------
(* One campaign with up to MaxRecipients enrolled recipients (or none) and *)
(* campaign ids that are not in the store.  Triggers arrive whatever the   *)
(* campaign's status, also while a run is under way (an accepted one while *)
(* at most one run is), and the refused ones are recorded.  The campaign  *)
(* starts as a draft, or "failed" as an earlier run whose first store call *)
(* raised has left it; no store call raises from here on.                  *)

InitTrigger ==
    \E n \in 0..MaxRecipients, status \in {"draft", "failed"} :
        /\ status = "failed" => n > 0
        /\ campaigns = [c \in CampaignIds |->
                          IF c = 1 THEN [Campaign EXCEPT !.total_recipients = n,
                                                         !.status = status]
                                   ELSE NoCampaign]
        /\ recipients = [r \in 1..n |-> Recipient(1)]
        /\ tasks = <<>>
        /\ requests = <<>>
        /\ provider = [r \in 1..n |-> 0]
        /\ faults = 0
        /\ rejections = NoRejections
        /\ render = NoRender

TriggerRejected == \E c \in CampaignIds : SendBulkEmailRejected(c)

OverlappingTrigger ==
    /\ Cardinality({t \in Tasks : Active(t)}) <= 1
    /\ Trigger

NextTrigger ==
    \/ OverlappingTrigger
    \/ TriggerRejected
    \/ \E t \in TaskIds : Load(t)
    \/ \E t \in TaskIds : Mark(t)
    \/ \E t \in TaskIds : Select(t)
    \/ \E t \in TaskIds : Send(t)
    \/ \E t \in TaskIds : BoundedSettle(t)
    \/ \E t \in TaskIds : WriteStatus(t)
    \/ \E t \in TaskIds : Final(t)

SpecTrigger == InitTrigger /\ [][NextTrigger]_vars

----------------------------------------------------------------------------
(* One campaign with up to MaxOverlap pending recipients and triggers that *)
(* overlap: a second run is scheduled while the first is under way, and    *)
(* both select the same pending recipients.  No store call raises, and     *)
(* every send is accepted: what a send returns has no part in when it is   *)
(* issued or when it settles.                                              *)

InitOverlap ==
    \E n \in 1..MaxOverlap :
        /\ campaigns = [c \in CampaignIds |->
                          IF c = 1 THEN [Campaign EXCEPT !.total_recipients = n]
                                   ELSE NoCampaign]
        /\ recipients = [r \in 1..n |-> Recipient(1)]
        /\ tasks = <<>>
        /\ requests = <<>>
        /\ provider = [r \in 1..n |-> 0]
        /\ faults = 0
        /\ rejections = NoRejections
        /\ render = NoRender

NextOverlap ==
    \/ OverlappingTrigger
    \/ \E t \in TaskIds : Load(t)
    \/ \E t \in TaskIds : Mark(t)
    \/ \E t \in TaskIds : Select(t)
    \/ \E t \in TaskIds : Send(t)
    \/ \E t \in TaskIds : Settle(t, "accepted")
    \/ \E t \in TaskIds : WriteStatus(t)
    \/ \E t \in TaskIds : Final(t)

SpecOverlap == InitOverlap /\ [][NextOverlap]_vars

----------------------------------------------------------------------------
(* Two runs in a store that holds more than they may touch.  Campaign 1    *)
(* has completed an earlier run: one of its recipients is "sent", and n    *)
(* more were enrolled since and are pending.  Campaign 2 has one pending   *)
(* recipient; its document is in the store, or is not (PUT /campaigns/{id} *)
(* can $set the id of a document, after which the old id resolves to       *)
(* nothing).  One run is scheduled for each campaign; store calls of the   *)
(* runs may raise.                                                         *)

FrameRecipients(n) ==
    <<Recipient(2), [campaign_id |-> 1, status |-> "sent"]>>
    \o [r \in 1..n |-> Recipient(1)]

InitFrame ==
    \E n \in 0..MaxFrame, other \in {NoCampaign,
                                     [Campaign EXCEPT !.total_recipients = 1]},
       test_mode \in BOOLEAN :
        /\ campaigns = [c \in CampaignIds |->
                          IF c = 1
                          THEN [status |-> "completed",
                                total_recipients |-> n + 1,
                                sent_count |-> 1, failed_count |-> 0]
                          ELSE IF c = 2 THEN other ELSE NoCampaign]
        /\ recipients = FrameRecipients(n)
        /\ tasks = <<NewTask(1, test_mode), NewTask(2, FALSE)>>
        /\ requests = <<>>
        /\ provider = <<0, 1>> \o [r \in 1..n |-> 0]
        /\ faults = 0
        /\ rejections = NoRejections
        /\ render = NoRender

NextFrame ==
    \/ \E t \in TaskIds : Load(t)
    \/ \E t \in TaskIds : Mark(t)
    \/ \E t \in TaskIds : Select(t)
    \/ \E t \in TaskIds : Send(t)
    \/ \E t \in TaskIds : BoundedSettle(t)
    \/ \E t \in TaskIds : WriteStatus(t)
    \/ \E t \in TaskIds : Final(t)
    \/ \E t \in TaskIds : Except(t)
    \/ \E t \in TaskIds : RunFault(t)

SpecFrame == InitFrame /\ [][NextFrame]_vars

----------------------------------------------------------------------------
(* Enrollment alone: campaigns are created and recipients are added one at *)
(* a time, up to MaxRequests handlers being between their insert and their *)
(* $inc at once; no store call raises and no run is scheduled.             *)

NextEnroll ==
    \/ CreateCampaign
    \/ \E c \in CampaignIds : AddRecipient(c)
    \/ \E c \in CampaignIds : AddRecipientRejected(c)
    \/ \E q \in RequestIds : IncTotal(q)

SpecEnroll == Init /\ [][NextEnroll]_vars

----------------------------------------------------------------------------
(* Personalization alone: every template of up to MaxTemplateLen tokens,   *)
(* a recipient with or without a name and with up to MaxMetadata metadata  *)
(* items, whose values may themselves hold placeholders.                   *)

Tokens == {Word("Hi"), Placeholder("name"), Placeholder("city"),
           Placeholder("plan"), Placeholder("missing")}

Texts(n) == UNION {[1..m -> Tokens] : m \in 0..n}

Names == {<<>>, <<Word("Ana")>>, <<Placeholder("city")>>}

MetadataKeys == {"name", "city", "plan"}

MetadataValues == {<<Word("Rome")>>, <<Placeholder("plan")>>,
                   <<Placeholder("name")>>}

Metadatas ==
    {items \in UNION {[1..m -> MetadataKeys \X MetadataValues] :
                         m \in 0..MaxMetadata} :
        \A a, b \in 1..Len(items) : a # b => items[a][1] # items[b][1]}

InitRender ==
    /\ campaigns = [c \in CampaignIds |-> NoCampaign]
    /\ recipients = <<>>
    /\ tasks = <<>>
    /\ requests = <<>>
    /\ provider = <<>>
    /\ faults = 0
    /\ rejections = NoRejections
    /\ render \in [pc : {"ready"}, template : Texts(MaxTemplateLen),
                    name : Names, metadata : Metadatas, out : {<<>>}]

NextRender == Personalization

SpecRender == InitRender /\ [][NextRender]_vars

----------------------------------------------------------------------------
(* Steps of a run, as seen in a pair of states *)

\* run t makes its terminal write in this step
FinalStep(t) ==
    /\ t \in Tasks
    /\ tasks[t].pc = "final"
    /\ tasks'[t].pc = "done"

\* run t calls the delivery provider for recipient r in this step
SendStep(t, r) ==
    /\ t \in Tasks
    /\ tasks[t].pc = "send"
    /\ tasks'[t].issued = tasks[t].issued + 1
    /\ r = tasks[t].batch[tasks[t].issued + 1]

\* a send of run t settles in this step
SettleStep(t) ==
    /\ t \in Tasks
    /\ tasks[t].pc = "send"
    /\ Len(tasks'[t].results) = Len(tasks[t].results) + 1

\* run t stores the status of recipient r in this step
WriteStep(t, r) ==
    /\ t \in Tasks
    /\ tasks[t].pc = "write"
    /\ tasks'[t] # tasks[t]
    /\ tasks'[t].pc # "except"
    /\ r = tasks[t].batch[tasks[t].k + 1]

Settled == {"sent", "failed"}

----------------------------------------------------------------------------
(* C1: when a run makes its terminal write, the sent_count and             *)
(* failed_count it stores on the campaign add up to the number of          *)
(* recipients the run selected, and every selected recipient's stored      *)
(* status is "sent" or "failed", none "pending".                           *)

CounterInvariant ==
    [][\A t \in TaskIds :
          FinalStep(t) =>
             LET task == tasks'[t]
                 campaign == campaigns'[task.campaign_id]
             IN /\ campaign.sent_count + campaign.failed_count
                      = Len(task.recipients)
                /\ \A j \in 1..Len(task.recipients) :
                      recipients'[task.recipients[j]].status \in Settled]_vars

\* a completed run over two batches, one send of the second batch failed
CounterWitness ==
    \E t \in Tasks :
        /\ tasks[t].pc = "done"
        /\ Len(tasks[t].recipients) = 12
        /\ recipients[tasks[t].recipients[11]].status = "failed"
        /\ campaigns[tasks[t].campaign_id].sent_count = 11
        /\ campaigns[tasks[t].campaign_id].failed_count = 1

(* C2: the delivery provider is never called for a recipient whose stored  *)
(* status is no longer "pending", whatever the interleaving of triggers.   *)

NoDoubleSend ==
    [][\A t \in TaskIds : \A r \in RecipientIds :
          SendStep(t, r) => recipients[r].status = "pending"]_vars

(* C3: once a recipient's status is "sent" or "failed", no step of any run *)
(* writes that recipient's status again.                                   *)

StatusWrittenOnce ==
    [][\A t \in TaskIds : \A r \in RecipientIds :
          WriteStep(t, r) => recipients[r].status \notin Settled]_vars

(* C4: for every campaign, sent_count + failed_count <= total_recipients   *)
(* in every reachable state.                                               *)

CountsWithinTotal ==
    \A c \in CampaignIds :
        campaigns[c].sent_count + campaigns[c].failed_count
            <= campaigns[c].total_recipients

(* C5: the campaign status values one run writes are "sending" and then   *)
(* "completed" (no send failed) or "completed_with_errors" (a send failed) *)
(* when the run completes, and "sending" and then "failed" when its fault  *)
(* handler has run, wherever the fault was raised.                         *)

StatusSequenceAsClaimed ==
    \A t \in Tasks :
        /\ tasks[t].pc = "done" =>
              tasks[t].writes =
                 <<"sending", IF tasks[t].failed_count = 0
                              THEN "completed" ELSE "completed_with_errors">>
        /\ tasks[t].pc = "handled" => tasks[t].writes = <<"sending", "failed">>

(* C5 as amended: the same, except that a fault raised by the campaign     *)
(* load or by the "sending" write is followed by "failed" alone, and that  *)
(* a run whose handler's write raises writes nothing after the fault.      *)

StatusSequence ==
    \A t \in Tasks :
        LET task == tasks[t]
            early == task.raised_at \in {"load", "mark"}
        IN /\ task.pc \in {"load", "mark", "absent"} => task.writes = <<>>
           /\ task.pc \in {"select", "send", "write", "sleep", "final"} =>
                 task.writes = <<"sending">>
           /\ task.pc = "done" =>
                 task.writes =
                    <<"sending", IF task.failed_count = 0
                                 THEN "completed" ELSE "completed_with_errors">>
           /\ task.pc = "handled" =>
                 task.writes = IF early THEN <<"failed">>
                                        ELSE <<"sending", "failed">>
           /\ task.pc \in {"except", "raised"} =>
                 task.writes = IF early THEN <<>> ELSE <<"sending">>

\* one run ended "completed_with_errors", another wrote "failed" alone
StatusSequenceWitness ==
    \E t, u \in Tasks :
        /\ tasks[t].pc = "done"
        /\ tasks[t].writes = <<"sending", "completed_with_errors">>
        /\ tasks[u].pc = "handled"
        /\ tasks[u].writes = <<"failed">>

(* C6: a send that returns false or raises never aborts the run and never  *)
(* cancels a sibling: every send of the batch settles, each recipient's    *)
(* status is written from its own result ("sent" for a success, "failed"   *)
(* otherwise), and the writes go on to the end of the batch.               *)

FailureIsolation ==
    [][\A t \in TaskIds :
          /\ (t \in Tasks /\ tasks[t].pc = "send" /\ tasks'[t] # tasks[t]) =>
                /\ tasks'[t].pc \in {"send", "write"}
                /\ Len(tasks'[t].results) + tasks'[t].issued
                      = Len(tasks[t].results) + tasks[t].issued + 1
                /\ InFlight(tasks'[t]) \in {0, 1}
                /\ tasks'[t].pc = "write"
                      <=> Len(tasks'[t].results) = Len(tasks[t].batch)
          /\ (t \in Tasks /\ tasks[t].pc = "write") =>
                Len(tasks[t].results) = Len(tasks[t].batch)
          /\ \A r \in RecipientIds :
                WriteStep(t, r) =>
                   /\ recipients'[r].status =
                         IF tasks[t].results[tasks[t].k + 1] = "True"
                         THEN "sent" ELSE "failed"
                   /\ tasks[t].k + 1 < Len(tasks[t].batch) =>
                         /\ tasks'[t].pc = "write"
                         /\ tasks'[t].k = tasks[t].k + 1]_vars

\* a batch whose first send failed and whose second succeeded, written
IsolationWitness ==
    \E t \in Tasks :
        /\ tasks[t].pc = "final"
        /\ Len(tasks[t].batch) = 2
        /\ tasks[t].results = <<"False", "True">>
        /\ recipients[tasks[t].batch[1]].status = "failed"
        /\ recipients[tasks[t].batch[2]].status = "sent"

(* C7: at most one run is in progress for a campaign id at any time.       *)

Running(t) == Active(t) /\ tasks[t].pc # "load"

SingleActiveRun ==
    \A t, u \in Tasks :
        (t # u /\ Running(t) /\ Running(u))
            => tasks[t].campaign_id # tasks[u].campaign_id

(* C8: a test-mode run over N pending recipients selects and processes    *)
(* the first min(N, 5) of them in store order and no other; a run that is  *)
(* not in test mode selects and processes all N.                           *)

\* the recipients of campaign c that are pending, in store order
PendingOf(c) ==
    SelectSeq([r \in RecipientIds |-> r],
              LAMBDA r : recipients[r].campaign_id = c
                         /\ recipients[r].status = "pending")

TestModeCap ==
    [][\A t \in TaskIds :
          /\ (t \in Tasks /\ tasks[t].pc = "select" /\ tasks'[t].pc # "select") =>
                LET pending == PendingOf(tasks[t].campaign_id)
                    n == Len(pending)
                    m == IF tasks[t].test_mode /\ n > 5 THEN 5 ELSE n
                IN /\ Len(tasks'[t].recipients) = m
                   /\ \A j \in 1..m : tasks'[t].recipients[j] = pending[j]
          /\ (FinalStep(t) /\ t = 1) =>
                LET n == Len(recipients)
                    m == IF tasks[t].test_mode /\ n > 5 THEN 5 ELSE n
                IN /\ tasks[t].sent_count + tasks[t].failed_count = m
                   /\ \A r \in 1..n :
                         /\ provider[r] = IF r <= m THEN 1 ELSE 0
                         /\ recipients[r].status \in Settled <=> r <= m]_vars

\* a completed test-mode run that took 5 of more than 5 pending recipients
TestModeCapWitness ==
    /\ Len(tasks) = 1
    /\ tasks[1].pc = "done"
    /\ tasks[1].test_mode
    /\ Len(tasks[1].recipients) = 5
    /\ Len(recipients) > 5
    /\ recipients[6].status = "pending"

(* C9: a run on a campaign that has recipients, none of them pending,      *)
(* calls the delivery provider for nobody, writes no recipient, and ends   *)
(* with campaign status "completed", sent_count 0 and failed_count 0.      *)

NonePending(c) ==
    /\ \E r \in RecipientIds : recipients[r].campaign_id = c
    /\ \A r \in RecipientIds :
          recipients[r].campaign_id = c => recipients[r].status # "pending"

\* run t is under way and found, or will find, nobody to send to
EmptyRunOf(t) ==
    /\ t \in Tasks
    /\ Active(t)
    /\ NonePending(tasks[t].campaign_id)
    /\ tasks[t].pc \in {"load", "mark", "select"} \/ tasks[t].recipients = <<>>

EmptyRun ==
    [][\A t \in TaskIds :
          EmptyRunOf(t) =>
             /\ provider' = provider
             /\ recipients' = recipients
             /\ tasks'[t].pc \in {"mark", "select", "final", "done"}
             /\ Len(tasks'[t].recipients) = 0
             /\ tasks'[t].pc = "done" =>
                   /\ campaigns'[tasks[t].campaign_id].status = "completed"
                   /\ campaigns'[tasks[t].campaign_id].sent_count = 0
                   /\ campaigns'[tasks[t].campaign_id].failed_count = 0]_vars

\* an empty run has ended on a campaign whose earlier run had a failed send
EmptyRunWitness ==
    /\ Len(tasks) = 2
    /\ tasks[2].pc = "done"
    /\ Len(tasks[2].recipients) = 0
    /\ tasks[2].gathered = <<>>
    /\ tasks[1].failed_count > 0
    /\ campaigns[1].status = "completed"
    /\ campaigns[1].sent_count = 0
    /\ campaigns[1].failed_count = 0

(* C10: a run over N selected recipients executes ceil(N/10) batches, each *)
(* of 10 recipients except possibly the last, and the batches put end to   *)
(* end in execution order are the selected list.                           *)

RECURSIVE Flatten(_)
Flatten(batches) ==
    IF batches = <<>> THEN <<>>
    ELSE Head(batches) \o Flatten(Tail(batches))

BatchPartition ==
    \A t \in Tasks :
        LET selected == tasks[t].recipients
            n == Len(selected)
            g == tasks[t].gathered
            flat == Flatten(g)
        IN /\ Len(flat) <= n
           /\ flat = SubSeq(selected, 1, Len(flat))
           /\ \A b \in 1..Len(g) :
                 Len(g[b]) = IF b < Len(g) \/ n % 10 = 0 \/ Len(flat) < n
                             THEN 10 ELSE n % 10
           /\ tasks[t].pc \in {"final", "done"} =>
                 /\ Len(g) = (n + 9) \div 10
                 /\ flat = selected

\* a completed run over 21 recipients in three batches
BatchPartitionWitness ==
    \E t \in Tasks :
        /\ tasks[t].pc = "done"
        /\ Len(tasks[t].recipients) = 21
        /\ Len(tasks[t].gathered) = 3
        /\ Len(tasks[t].gathered[3]) = 1

(* C11: a run never raises to its caller: whatever store call of the run   *)
(* raised, the run ends in its fault handler with "failed" as the last     *)
(* campaign status it wrote; and only the fault handler writes "failed".   *)

RunFaultCaught ==
    \A t \in Tasks :
        LET task == tasks[t]
        IN /\ task.pc # "raised"
           /\ (task.raised_at # "" /\ ~Active(t)) =>
                 /\ task.pc = "handled"
                 /\ task.writes # <<>>
                 /\ task.writes[Len(task.writes)] = "failed"
           /\ (\E j \in 1..Len(task.writes) : task.writes[j] = "failed") =>
                 task.pc = "handled"

(* C12: send_bulk_email refuses a request exactly when the campaign is not *)
(* in the store (404) or has no recipient document (400), and then adds no *)
(* background task and changes nothing in the store; in every other case,  *)
(* whatever the campaign's status, it adds exactly one task, which has     *)
(* taken no step when the handler returns, and changes nothing else.       *)

\* requests to send campaign c that were refused with this code
Refused(c, code) == rejections[<<"send", c, code>>]

TriggerContract ==
    /\ [](\A c \in CampaignIds :
             (Exists(c) /\ CountDocuments(c) > 0 /\ Idle /\ Len(tasks) < MaxRuns
              /\ Cardinality({t \in Tasks : Active(t)}) <= 1)
                => ENABLED SendBulkEmail(c, FALSE))
    /\ [][\A c \in CampaignIds :
             /\ Refused(c, 404)' # Refused(c, 404) =>
                   /\ ~Exists(c)
                   /\ UNCHANGED <<campaigns, recipients, tasks, requests,
                                  provider>>
             /\ Refused(c, 400)' # Refused(c, 400) =>
                   /\ Exists(c)
                   /\ CountDocuments(c) = 0
                   /\ UNCHANGED <<campaigns, recipients, tasks, requests,
                                  provider>>
             /\ (Len(tasks') # Len(tasks)
                 /\ tasks'[Len(tasks')].campaign_id = c) =>
                   /\ Exists(c)
                   /\ CountDocuments(c) > 0
                   /\ \E test_mode \in BOOLEAN :
                         tasks' = Append(tasks, NewTask(c, test_mode))
                   /\ UNCHANGED <<campaigns, recipients, requests, provider,
                                  rejections>>]_vars

\* a trigger was accepted while another run had the campaign in "sending"
\* and was writing statuses, and a trigger on a missing campaign was refused
TriggerWitness ==
    /\ Len(tasks) = 2
    /\ tasks[2].pc = "load"
    /\ tasks[1].pc = "write"
    /\ campaigns[1].status = "sending"
    /\ Refused(2, 404) = 1

(* C13: within one run the delivery provider is called exactly once for    *)
(* each recipient the run selected and never for another recipient; a      *)
(* send that returned false or raised is not made again in that run.       *)

\* the runs that selected recipient r
SelectedBy(r) ==
    {t \in Tasks : \E j \in 1..Len(tasks[t].recipients) :
                      tasks[t].recipients[j] = r}

OncePerSelected ==
    /\ \A r \in RecipientIds :
          /\ Cardinality(SelectedBy(r)) <= 1
          /\ provider[r] <= Cardinality(SelectedBy(r))
    /\ \A t \in Tasks :
          tasks[t].pc \in {"write", "sleep", "final", "done"} =>
             \A j \in 1..(tasks[t].i + Len(tasks[t].batch)) :
                provider[tasks[t].recipients[j]] = 1

\* a completed test-mode run with a failed send: one call for the recipient
\* whose send failed, none for the recipient the run did not select
OncePerSelectedWitness ==
    /\ Len(tasks) = 1
    /\ tasks[1].pc = "done"
    /\ Len(tasks[1].recipients) = 5
    /\ Len(recipients) > 5
    /\ recipients[3].status = "failed"
    /\ provider[3] = 1
    /\ provider[6] = 0

(* C14: add_recipient on a campaign of the store inserts exactly one       *)
(* recipient document, "pending" and owned by that campaign, and then      *)
(* increments the campaign's total_recipients by exactly 1; on a campaign  *)
(* that is not in the store it answers 404 and stores nothing; and when    *)
(* every add_recipient call made so far has returned, each campaign's      *)
(* total_recipients is the number of its recipient documents.              *)

\* recipients that handlers in flight have inserted for c and not yet counted
NotYetCounted(c) ==
    SumOver([q \in 1..Len(requests) |->
                IF requests[q].campaign_id = c
                THEN requests[q].recipients_added ELSE 0],
            1..Len(requests))

EnrollmentContract ==
    /\ [](\A c \in CampaignIds :
             /\ CountDocuments(c)
                   = campaigns[c].total_recipients + NotYetCounted(c)
             /\ requests = <<>> =>
                   campaigns[c].total_recipients = CountDocuments(c))
    /\ [][\A c \in CampaignIds :
             /\ Len(recipients') # Len(recipients) =>
                   /\ \E d \in CampaignIds :
                         /\ Exists(d)
                         /\ recipients' = Append(recipients,
                               [campaign_id |-> d, status |-> "pending"])
                         /\ requests' = Append(requests,
                               [op |-> "add", campaign_id |-> d, rows |-> 0,
                                recipients_added |-> 1])
                   /\ campaigns' = campaigns
             /\ rejections'[<<"add", c, 404>>] # rejections[<<"add", c, 404>>] =>
                   /\ ~Exists(c)
                   /\ UNCHANGED <<campaigns, recipients, requests, provider>>
             /\ Len(requests') < Len(requests) =>
                   /\ recipients' = recipients
                   /\ \E q \in 1..Len(requests) :
                         /\ requests' = Remove(requests, q)
                         /\ campaigns' = [campaigns EXCEPT
                               ![requests[q].campaign_id].total_recipients
                                   = @ + 1]]_vars

\* two add_recipient calls on campaign 1 have returned, and one on a
\* campaign that is not in the store was refused
EnrollmentWitness ==
    /\ requests = <<>>
    /\ Exists(1)
    /\ ~Exists(2)
    /\ CountDocuments(1) = 2
    /\ campaigns[1].total_recipients = 2
    /\ rejections[<<"add", 2, 404>>] = 1

(* C15: the personalized text is what one pass over the template gives:    *)
(* every {{name}} replaced by the recipient's name, every {{key}} by       *)
(* metadata[key] for the keys of the metadata, any other token left as it  *)
(* is, whatever the substituted values hold and with or without a name.    *)

\* metadata[key], or the empty text when the key is not in the metadata
RECURSIVE Lookup(_, _)
Lookup(items, key) ==
    IF items = <<>> THEN <<>>
    ELSE IF Head(items)[1] = key THEN Head(items)[2]
    ELSE Lookup(Tail(items), key)

HasKey(items, key) == \E a \in 1..Len(items) : items[a][1] = key

\* what the placeholder, or the word, stands for
Substitute(token, name, metadata) ==
    IF token = Placeholder("name") /\ name # <<>> THEN name
    ELSE IF token[1] = "{{}}" /\ HasKey(metadata, token[2])
         THEN Lookup(metadata, token[2])
    ELSE <<token>>

RECURSIVE SinglePass(_, _, _)
SinglePass(template, name, metadata) ==
    IF template = <<>> THEN <<>>
    ELSE Substitute(Head(template), name, metadata)
         \o SinglePass(Tail(template), name, metadata)

SinglePassSubstitution ==
    render.pc = "done" =>
        render.out = SinglePass(render.template, render.name, render.metadata)

(* C16: within a run, the delivery provider is not called for a recipient  *)
(* of a batch before the status of every recipient of the earlier batches  *)
(* is written, and the terminal campaign write comes only after the status *)
(* of every recipient of every batch is written.                           *)

\* the status of every recipient of the first n batches of run t is written
BatchesWritten(t, n) ==
    \A b \in 1..n : \A j \in 1..Len(tasks[t].gathered[b]) :
        recipients[tasks[t].gathered[b][j]].status \in Settled

InterBatchBarrier ==
    [][\A t \in TaskIds :
          /\ \A r \in RecipientIds :
                SendStep(t, r) =>
                   /\ BatchesWritten(t, Len(tasks[t].gathered) - 1)
                   /\ \E j \in 1..Len(tasks[t].batch) : tasks[t].batch[j] = r
                   /\ tasks[t].gathered[Len(tasks[t].gathered)] = tasks[t].batch
          /\ FinalStep(t) => BatchesWritten(t, Len(tasks[t].gathered))]_vars

\* a run is sending its third batch, the first two batches written
InterBatchBarrierWitness ==
    \E t \in Tasks :
        /\ tasks[t].pc = "send"
        /\ Len(tasks[t].gathered) = 3
        /\ tasks[t].issued = 1
        /\ BatchesWritten(t, 2)
        /\ recipients[tasks[t].gathered[2][10]].status = "failed"

(* C17: all sends of a batch are in flight together: when the first of     *)
(* them settles, the delivery provider has been called for every recipient *)
(* of the batch; and no status of the batch is written before every send   *)
(* of the batch has settled.                                               *)

FanOutFanIn ==
    [][\A t \in TaskIds :
          /\ SettleStep(t) => tasks[t].issued = Len(tasks[t].batch)
          /\ \A r \in RecipientIds :
                WriteStep(t, r) =>
                   /\ Len(tasks[t].results) = Len(tasks[t].batch)
                   /\ InFlight(tasks[t]) = 0]_vars

\* the fan-in half alone, which holds

FanIn ==
    [][\A t \in TaskIds : \A r \in RecipientIds :
          WriteStep(t, r) =>
             /\ Len(tasks[t].results) = Len(tasks[t].batch)
             /\ InFlight(tasks[t]) = 0]_vars

(* C18: at every moment, the sends of a campaign that are issued and have  *)
(* not settled number at most batch_size, however the triggers on that     *)
(* campaign overlap.                                                       *)

\* sends in flight for campaign c, over all its runs
InFlightOf(c) ==
    SumOver([t \in Tasks |->
                IF tasks[t].campaign_id = c THEN InFlight(tasks[t]) ELSE 0],
            Tasks)

InFlightBound == \A c \in CampaignIds : InFlightOf(c) <= batch_size

\* two runs of the campaign are each in a batch of six; a send of one of
\* them is in flight, the other has sends still to issue
InFlightWitness ==
    \E t, u \in Tasks :
        /\ t # u
        /\ tasks[t].pc = "send"
        /\ tasks[u].pc = "send"
        /\ Len(tasks[t].batch) = 6
        /\ Len(tasks[u].batch) = 6
        /\ InFlight(tasks[t]) = 1
        /\ tasks[u].issued < 6
        /\ InFlightOf(1) = 1

(* C19: a campaign that a run has marked "sending" is not left there: when *)
(* the runs of the campaign have ended, and nothing is left to take a      *)
(* step, its status is "completed", "completed_with_errors" or "failed",   *)
(* also when store calls of the run have raised.                           *)

TerminalStatus == {"completed", "completed_with_errors", "failed"}

\* run t has written "sending"
Marked(t) == \E j \in 1..Len(tasks[t].writes) : tasks[t].writes[j] = "sending"

NotLeftSending ==
    \A t \in Tasks :
        (Marked(t) /\ \A u \in Tasks : ~Active(u)) =>
            campaigns[tasks[t].campaign_id].status \in TerminalStatus

(* C20: a run over N selected recipients pauses max(ceil(N/10) - 1, 0)     *)
(* times: once between each batch and the next, after the statuses of the  *)
(* earlier batch are written and before the first send of the later one,   *)
(* and not after the last batch, before the terminal write.                *)

\* run t comes out of asyncio.sleep in this step
PauseStep(t) ==
    /\ t \in Tasks
    /\ tasks'[t].pauses = tasks[t].pauses + 1

PauseCount ==
    /\ [](\A t \in Tasks :
             LET task == tasks[t]
                 n == Len(task.recipients)
             IN /\ task.pc \in {"load", "mark", "select"} => task.pauses = 0
                /\ task.pc \in {"send", "write", "sleep"} =>
                      task.pauses = Len(task.gathered) - 1
                /\ task.pc \in {"final", "done"} =>
                      task.pauses = IF n = 0 THEN 0 ELSE (n + 9) \div 10 - 1)
    /\ [][\A t \in TaskIds :
             PauseStep(t) =>
                /\ tasks[t].pc = "sleep"
                /\ BatchesWritten(t, Len(tasks[t].gathered))
                /\ tasks'[t].pc = "send"
                /\ tasks'[t].issued = 0
                /\ Len(tasks'[t].gathered) = Len(tasks[t].gathered) + 1]_vars

\* a run over 21 recipients, in three batches, has ended after two pauses
PauseCountWitness ==
    \E t \in Tasks :
        /\ tasks[t].pc = "done"
        /\ Len(tasks[t].recipients) = 21
        /\ Len(tasks[t].gathered) = 3
        /\ tasks[t].pauses = 2

(* C21: a step of a run changes, in the store, nothing but the status of a *)
(* recipient of its own campaign that was pending when the run selected    *)
(* (one of the first 5 such in test mode), and the status, sent_count and  *)
(* failed_count of its own campaign: total_recipients stays, no recipient  *)
(* is created or deleted; and a run whose campaign id resolves to nothing  *)
(* changes nothing at all, nor calls the delivery provider.                *)

\* the recipients of campaign c that a run may write, the store being
\* `before` when it selects
Eligible(before, c, test_mode) ==
    LET pending == SelectSeq([r \in 1..Len(before) |-> r],
                             LAMBDA r : before[r].campaign_id = c
                                        /\ before[r].status = "pending")
        cut == IF test_mode /\ Len(pending) > 5 THEN 5 ELSE Len(pending)
    IN {pending[j] : j \in 1..cut}

RunFrame ==
    [][\A t \in Tasks :
          tasks'[t] # tasks[t] =>
             LET c == tasks[t].campaign_id
                 before == FrameRecipients(Len(recipients) - 2)
             IN /\ Len(recipients') = Len(recipients)
                /\ \A r \in RecipientIds :
                      /\ recipients'[r].campaign_id = recipients[r].campaign_id
                      /\ recipients'[r] # recipients[r] =>
                            /\ recipients[r].campaign_id = c
                            /\ r \in Eligible(before, c, tasks[t].test_mode)
                      /\ provider'[r] # provider[r] =>
                            r \in Eligible(before, c, tasks[t].test_mode)
                /\ \A d \in CampaignIds :
                      /\ Exists(d) <=> Exists(d)'
                      /\ campaigns'[d].total_recipients
                            = campaigns[d].total_recipients
                      /\ campaigns'[d] # campaigns[d] => d = c
                /\ ~Exists(c) =>
                      UNCHANGED <<campaigns, recipients, provider, requests>>]_vars

\* the test-mode run of campaign 1 has ended: five recipients written, the
\* sixth pending one, the recipient sent earlier and the recipient of
\* campaign 2 as they were; the run of the missing campaign 2 has returned
RunFrameWitness ==
    /\ tasks[1].pc = "done"
    /\ tasks[1].test_mode
    /\ Len(recipients) = 8
    /\ \A r \in 3..7 : recipients[r].status \in Settled
    /\ recipients[8].status = "pending"
    /\ recipients[1].status = "pending"
    /\ provider[2] = 1
    /\ campaigns[1].total_recipients = 7
    /\ tasks[2].pc = "absent"
    /\ ~Exists(2)

(* C22: the terminal write of a run that completes stores the counts of    *)
(* that run alone: after any sequence of completed runs the campaign's     *)
(* sent_count and failed_count are the numbers of recipients the most      *)
(* recently completed run sent to and failed for, whatever the counters    *)
(* held before, and not the numbers of recipients stored as "sent" and as  *)
(* "failed".                                                               *)

\* recipients that run t selected and that are stored with this status
WrittenAs(t, status) ==
    Cardinality({j \in 1..Len(tasks[t].recipients) :
                    recipients[tasks[t].recipients[j]].status = status})

\* recipients of campaign c stored with this status
StoredAs(c, status) ==
    Cardinality({r \in RecipientIds : recipients[r].campaign_id = c
                                      /\ recipients[r].status = status})

CountersOfLastRun ==
    /\ [](\A t \in Tasks :
             (t = Len(tasks) /\ tasks[t].pc = "done") =>
                /\ campaigns[tasks[t].campaign_id].sent_count
                      = WrittenAs(t, "sent")
                /\ campaigns[tasks[t].campaign_id].failed_count
                      = WrittenAs(t, "failed"))
    /\ [][\A t \in TaskIds :
             FinalStep(t) =>
                /\ campaigns'[tasks[t].campaign_id].sent_count
                      = WrittenAs(t, "sent")
                /\ campaigns'[tasks[t].campaign_id].failed_count
                      = WrittenAs(t, "failed")]_vars

\* a test-mode run with a failed send, then a run over the recipients left:
\* the counters are the second run's, below what the store holds
CountersOfLastRunWitness ==
    /\ Len(tasks) = 2
    /\ tasks[1].pc = "done"
    /\ tasks[2].pc = "done"
    /\ tasks[1].failed_count = 1
    /\ Len(tasks[2].recipients) = 3
    /\ campaigns[1].sent_count = 3
    /\ campaigns[1].failed_count = 0
    /\ StoredAs(1, "sent") = 7
    /\ StoredAs(1, "failed") = 1

(* C23: when a store fault aborts a run, the fault handler writes the      *)
(* campaign's status "failed" and nothing else: sent_count and             *)
(* failed_count stay what they were before the run, the recipients whose   *)
(* status the run had written keep it, and every other selected recipient  *)
(* is still "pending", one whose send was made in the aborted batch too.   *)

\* run t's fault handler makes its write in this step
HandlerStep(t) ==
    /\ t \in Tasks
    /\ tasks[t].pc = "except"
    /\ tasks'[t].pc = "handled"

FaultBookkeeping ==
    [][\A t \in TaskIds :
          /\ HandlerStep(t) =>
                LET task == tasks[t]
                    c == task.campaign_id
                    written == task.sent_count + task.failed_count
                IN /\ campaigns' = [campaigns EXCEPT ![c].status = "failed"]
                   /\ recipients' = recipients
                   /\ \A j \in 1..Len(task.recipients) :
                         IF j <= written
                         THEN recipients[task.recipients[j]].status \in Settled
                         ELSE recipients[task.recipients[j]].status = "pending"
          /\ (t \in Tasks /\ tasks'[t] # tasks[t] /\ ~FinalStep(t)) =>
                \A c \in CampaignIds :
                   /\ campaigns'[c].sent_count = campaigns[c].sent_count
                   /\ campaigns'[c].failed_count = campaigns[c].failed_count]_vars

\* the write of the second status raised: the handler has written "failed",
\* the counters are those of before the run, the first recipient is "sent"
\* and the second, whose send was accepted, is "pending"
FaultBookkeepingWitness ==
    /\ Len(tasks) = 1
    /\ tasks[1].pc = "handled"
    /\ tasks[1].raised_at = "write"
    /\ tasks[1].results = <<"True", "True">>
    /\ tasks[1].sent_count = 1
    /\ campaigns[1].status = "failed"
    /\ campaigns[1].sent_count = 0
    /\ campaigns[1].failed_count = 0
    /\ recipients[1].status = "sent"
    /\ recipients[2].status = "pending"
    /\ provider[2] = 1

(* C24: a test-mode run over N > 5 pending recipients whose sends all      *)
(* succeed ends with the campaign "completed" and N - 5 recipients still   *)
(* "pending"; a full run that follows it selects exactly those N - 5, and  *)
(* none of the recipients the test-mode run processed.                     *)

\* the first run was a test-mode run over more than five pending
\* recipients, it is over and none of its sends failed
TestRunOver ==
    /\ Len(tasks) >= 1
    /\ tasks[1].test_mode
    /\ tasks[1].pc = "done"
    /\ tasks[1].failed_count = 0
    /\ Len(recipients) > TestModeLimit

\* the recipients run t selected
Selected(t) == {tasks[t].recipients[j] : j \in 1..Len(tasks[t].recipients)}

TestModeLeftovers ==
    /\ (TestRunOver /\ Len(tasks) = 1) =>
          /\ campaigns[1].status = "completed"
          /\ StoredAs(1, "pending") = Len(recipients) - TestModeLimit
          /\ \A r \in RecipientIds :
                recipients[r].status = "pending" <=> r \notin Selected(1)
    /\ (/\ TestRunOver
        /\ Len(tasks) = 2
        /\ ~tasks[2].test_mode
        /\ tasks[2].pc \notin {"load", "mark", "select"}) =>
          /\ Len(tasks[2].recipients) = Len(recipients) - TestModeLimit
          /\ Selected(2) = RecipientIds \ Selected(1)

\* seven recipients: the test-mode run sent to five and the campaign was
\* "completed" with two left; the full run after it selected those two
TestModeLeftoversWitness ==
    /\ TestRunOver
    /\ Len(recipients) = 7
    /\ tasks[1].sent_count = 5
    /\ Len(tasks) = 2
    /\ ~tasks[2].test_mode
    /\ tasks[2].pc = "send"
    /\ tasks[2].recipients = <<6, 7>>
    /\ campaigns[1].status = "sending"
    /\ StoredAs(1, "sent") = 5
    /\ StoredAs(1, "pending") = 2

====
